---- MODULE Spec2Model ----
(***************************************************************************)
(* The PostHog daily digest (agents/posthog-digest): the digest driver     *)
(* main(), the metrics collector and its retrying API gateway, the Discord *)
(* notifier, and the pure helpers they use (format_change, _split_message, *)
(* _extract_trend_value, the top-pages extraction of _fetch_pageviews).    *)
(***************************************************************************)
EXTENDS Integers, Sequences, FiniteSets, TLC

VARIABLES
    pc,          \* main(): "config", "resolve", "collect", "check", "send", "exited"; "unit" when a helper is exercised alone
    exit,        \* how main() ended: "running", 0, 1, or "raised" (an uncaught exception)
    config,      \* what Config.from_env() did: "unset", "loaded", "KeyError", "ValueError"
    discovery,   \* what discover_projects() did: "not_run", "ok", "PostHogAPIError", "ClientError"
    projects,    \* the resolved project list
    idx,         \* position of the collection loop in projects (1-based)
    results,     \* main.results: <<[project, metrics]>>
    errors,      \* main.errors: <<[project, error]>>
    fetch,       \* the frame of the running fetch_project_metrics: step, metrics so far, event names
    callLog,     \* outcomes of the HTTP attempts of the current (or last) _query call, in order
    callResult,  \* how the current (or last) _query call ended: "pending", a return or a raise
    queryLog,    \* per attempted project: the _query calls made for it, <<[step, ok]>>
    fetchLog,    \* how each fetch_project_metrics call ended, in call order: <<[project, outcome]>>
    discord,     \* the frame of send_dm: step, login_called, close_called, chunks, sent, outcome
    input,       \* argument of the helper exercised alone
    output       \* its result

vars == <<pc, exit, config, discovery, projects, idx, results, errors, fetch,
          callLog, callResult, queryLog, fetchLog, discord, input, output>>

driverVars == <<pc, exit, config, discovery, projects, idx, results, errors, fetch,
                callLog, callResult, queryLog, fetchLog, discord>>

None == [kind |-> "None"]

Min(a, b) == IF a < b THEN a ELSE b

Abs(a) == IF a < 0 THEN 0 - a ELSE a

(***************************************************************************)
(* Python values and results.  A string is a sequence of one-character     *)
(* strings.  A call either returns a value or raises an exception.         *)
(***************************************************************************)
Return(v) == [kind |-> "return", val |-> v]

Raise(e) == [kind |-> "raise", exc |-> e]

\* Parsed JSON: null, int, str, list, and dict as a list of <<key, value>> pairs.
JNull == [kind |-> "null"]

JInt(n) == [kind |-> "int", val |-> n]

JStr(s) == [kind |-> "str", val |-> s]

JList(s) == [kind |-> "list", val |-> s]

JDict(pairs) == [kind |-> "dict", val |-> pairs]

(***************************************************************************)
(* The Python operations _extract_trend_value applies to a parsed body.    *)
(***************************************************************************)
RECURSIVE Lookup(_, _, _)
Lookup(pairs, key, default) ==
    IF pairs = <<>> THEN default
    ELSE IF Head(pairs)[1] = key THEN Head(pairs)[2]
    ELSE Lookup(Tail(pairs), key, default)

\* obj.get(key, default): only a dict has the attribute.
PyGet(obj, key, default) ==
    IF obj.kind = "dict" THEN Return(Lookup(obj.val, key, default))
    ELSE Raise("AttributeError")

\* x[0] (last = FALSE) or x[-1] (last = TRUE).  The keys of a parsed JSON
\* object are strings, so an integer subscript of a dict is a KeyError.
PyItem(x, last) ==
    CASE x.kind = "list" ->
            IF x.val = <<>> THEN Raise("IndexError")
            ELSE Return(IF last THEN x.val[Len(x.val)] ELSE x.val[1])
      [] x.kind = "str" ->
            IF x.val = <<>> THEN Raise("IndexError")
            ELSE Return(JStr(<<IF last THEN x.val[Len(x.val)] ELSE x.val[1]>>))
      [] x.kind = "dict" -> Raise("KeyError")
      [] OTHER -> Raise("TypeError")

\* bool(x)
PyTruthy(x) ==
    CASE x.kind = "null" -> FALSE
      [] x.kind = "int" -> x.val # 0
      [] OTHER -> x.val # <<>>

DigitChars == <<"0", "1", "2", "3", "4", "5", "6", "7", "8", "9">>

DigitValue(c) == (CHOOSE i \in 1..10 : DigitChars[i] = c) - 1

IsDigit(c) == \E i \in 1..10 : DigitChars[i] = c

RECURSIVE ParseDecimal(_, _)
ParseDecimal(s, acc) ==
    IF s = <<>> THEN acc ELSE ParseDecimal(Tail(s), acc * 10 + DigitValue(Head(s)))

\* int(x): an int is itself, a string of decimal digits is parsed, any other
\* string is a ValueError, and null, a list or a dict is a TypeError.
PyInt(x) ==
    CASE x.kind = "int" -> Return(x.val)
      [] x.kind = "str" ->
            IF x.val # <<>> /\ \A i \in 1..Len(x.val) : IsDigit(x.val[i])
            THEN Return(ParseDecimal(x.val, 0))
            ELSE Raise("ValueError")
      [] OTHER -> Raise("TypeError")

\* PostHogClient._extract_trend_value
ExtractTrendCaught == {"KeyError", "IndexError", "TypeError"}

ExtractTrendValue(result) ==
    LET series == PyGet(result, "results", JList(<<JDict(<<>>)>>))
        first == IF series.kind = "raise" THEN series ELSE PyItem(series.val, FALSE)
        data == IF first.kind = "raise" THEN first
                ELSE PyGet(first.val, "data", JList(<<>>))
        value == IF data.kind = "raise" THEN data
                 ELSE IF ~PyTruthy(data.val) THEN Return(0)
                 ELSE LET point == PyItem(data.val, TRUE)
                      IN IF point.kind = "raise" THEN point ELSE PyInt(point.val)
    IN IF value.kind = "raise" /\ value.exc \in ExtractTrendCaught
       THEN Return(0)
       ELSE value

(***************************************************************************)
(* Response bodies of a trend query.                                     *)
(***************************************************************************)
MaxData == 2

SeqsUpTo(S, n) == UNION {[1..k -> S] : k \in 0..n}

JScalars == {JNull, JInt(0), JInt(3), JStr(<<>>), JStr(<<"7">>), JStr(<<"x">>)}

TrendDataValues ==
    JScalars \cup {JList(s) : s \in SeqsUpTo(JScalars, MaxData)}
             \cup {JDict(<<>>), JDict(<< <<"k", JInt(1)>> >>)}

TrendSeriesValues ==
    JScalars \cup {JDict(<<>>), JList(<<>>), JList(<<JInt(1)>>)}
             \cup {JDict(<< <<"data", d>> >>) : d \in TrendDataValues}

OtherSeries == JDict(<< <<"data", JList(<<JInt(9)>>)>> >>)

TrendResultsValues ==
    JScalars \cup {JList(<<>>), JDict(<<>>)}
             \cup {JList(<<s>>) : s \in TrendSeriesValues}
             \cup {JList(<<s, OtherSeries>>) : s \in TrendSeriesValues}

TrendBodies ==
    {JDict(<<>>)} \cup {JDict(<< <<"results", r>> >>) : r \in TrendResultsValues}

(***************************************************************************)
(* formatters.py                                                           *)
(***************************************************************************)
RECURSIVE DecDigits(_)
DecDigits(n) ==
    IF n < 10 THEN <<DigitChars[n + 1]>>
    ELSE Append(DecDigits(n \div 10), DigitChars[(n % 10) + 1])

RECURSIVE GroupThousands(_)
GroupThousands(d) ==
    IF Len(d) <= 3 THEN d
    ELSE GroupThousands(SubSeq(d, 1, Len(d) - 3)) \o <<",">> \o SubSeq(d, Len(d) - 2, Len(d))

\* format_number: f"{n:,}"
FormatNumber(n) ==
    IF n < 0 THEN <<"-">> \o GroupThousands(DecDigits(0 - n))
    ELSE GroupThousands(DecDigits(n))

\* round-half-to-even of num / den, for num >= 0 and den > 0
RoundHalfEven(num, den) ==
    LET q == num \div den
        r == num % den
    IN IF 2 * r < den THEN q
       ELSE IF 2 * r > den THEN q + 1
       ELSE IF q % 2 = 0 THEN q ELSE q + 1

\* f"{pct:.0f}" of the float pct = num / den (den > 0): the sign of a negative
\* value is printed even when it rounds to zero ("-0").
FormatPct(num, den) ==
    (IF num < 0 THEN <<"-">> ELSE <<>>) \o DecDigits(RoundHalfEven(Abs(num), den))

NoChangeArrow == "U+2194"

UpArrow == "U+2191"

DownArrow == "U+2193"

\* format_change(current, previous); previous is None or JInt(n), n >= 0.
\* pct = (change / previous) * 100 is kept as the fraction change * 100 / previous.
FormatChange(current, previous) ==
    IF previous.kind = "None" \/ previous.val = 0 THEN FormatNumber(current)
    ELSE LET change == current - previous.val
             num == change * 100
             den == previous.val
             nochange == Abs(num) < den
             arrow == IF nochange THEN NoChangeArrow
                      ELSE IF change > 0 THEN UpArrow ELSE DownArrow
             sign == IF ~nochange /\ change > 0 THEN <<"+">> ELSE <<>>
         IN FormatNumber(current) \o <<" ", arrow, " ">> \o sign
                \o FormatPct(num, den) \o <<"%">>

(***************************************************************************)
(* discord_client.py: DiscordClient._split_message                         *)
(***************************************************************************)
Whitespace == {" ", "\n", "\t"}

\* str.rstrip()
RECURSIVE RStrip(_)
RStrip(s) ==
    IF s # <<>> /\ s[Len(s)] \in Whitespace THEN RStrip(SubSeq(s, 1, Len(s) - 1))
    ELSE s

\* str.split("\n")
RECURSIVE SplitLines(_)
SplitLines(s) ==
    IF \A i \in 1..Len(s) : s[i] # "\n" THEN <<s>>
    ELSE LET k == CHOOSE i \in 1..Len(s) :
                      s[i] = "\n" /\ \A j \in 1..(i - 1) : s[j] # "\n"
         IN <<SubSeq(s, 1, k - 1)>> \o SplitLines(SubSeq(s, k + 1, Len(s)))

FlushChunk(chunks, current_chunk) ==
    IF current_chunk # <<>> THEN Append(chunks, RStrip(current_chunk)) ELSE chunks

RECURSIVE SplitLoop(_, _, _, _)
SplitLoop(lines, current_chunk, chunks, max_length) ==
    IF lines = <<>> THEN FlushChunk(chunks, current_chunk)
    ELSE LET line == Head(lines)
         IN IF Len(current_chunk) + Len(line) + 1 > max_length
            THEN SplitLoop(Tail(lines), line \o <<"\n">>,
                           FlushChunk(chunks, current_chunk), max_length)
            ELSE SplitLoop(Tail(lines), current_chunk \o line \o <<"\n">>,
                           chunks, max_length)

SplitMessage(message, max_length) ==
    IF Len(message) <= max_length THEN <<message>>
    ELSE SplitLoop(SplitLines(message), <<>>, <<>>, max_length)

(***************************************************************************)
(* posthog_client.py: the extraction of _fetch_pageviews                   *)
(***************************************************************************)
TopPagesRows == 5

UrlMaxLen == 50

\* str(x) of a page column
PyStr(x) ==
    CASE x.kind = "str" -> x.val
      [] x.kind = "int" -> FormatPct(x.val, 1)
      [] OTHER -> <<"N", "o", "n", "e">>

RowHasPage(r) == PyTruthy(r.val[1])

\* faulty variant: the comprehension without the [:5] slice
TopPagesNoSlice(rows) ==
    LET kept == SelectSeq(rows, RowHasPage)
    IN [i \in 1..Len(kept) |->
            [page |-> SubSeq(PyStr(kept[i].val[1]), 1,
                             Min(UrlMaxLen, Len(PyStr(kept[i].val[1])))),
             views |-> PyInt(kept[i].val[2]).val]]

\* [(str(r[0])[:50], int(r[1])) for r in results[:5] if r[0]]
TopPages(rows) ==
    LET kept == SelectSeq(SubSeq(rows, 1, Min(TopPagesRows, Len(rows))), RowHasPage)
    IN [i \in 1..Len(kept) |->
            [page |-> SubSeq(PyStr(kept[i].val[1]), 1,
                             Min(UrlMaxLen, Len(PyStr(kept[i].val[1])))),
             views |-> PyInt(kept[i].val[2]).val]]

\* sum(int(r[1]) for r in results if len(r) > 1)
RECURSIVE TotalPageviews(_)
TotalPageviews(rows) ==
    IF rows = <<>> THEN 0
    ELSE (IF Len(Head(rows).val) > 1 THEN PyInt(Head(rows).val[2]).val ELSE 0)
         + TotalPageviews(Tail(rows))

\* result.get("results", []) and the two comprehensions
ExtractPageviews(result) ==
    LET results_ == Lookup(result.val, "results", JList(<<>>)).val
    IN [pageviews |-> TotalPageviews(results_), top_pages |-> TopPages(results_)]

\* _fetch_pageviews after the query: a row of the first five with no page
\* column, or with a page and no views column, is an IndexError.
FetchPageviewsResult(result) ==
    LET rows == Lookup(result.val, "results", JList(<<>>)).val
        head == SubSeq(rows, 1, Min(TopPagesRows, Len(rows)))
    IN IF \E i \in 1..Len(head) :
              \/ Len(head[i].val) = 0
              \/ PyTruthy(head[i].val[1]) /\ Len(head[i].val) < 2
       THEN Raise("IndexError")
       ELSE Return(ExtractPageviews(result))

\* _discover_custom_events after the query:
\* [str(r[0]) for r in result.get("results", []) if r[0]]
DiscoverEventsResult(result) ==
    LET rows == Lookup(result.val, "results", JList(<<>>)).val
    IN IF \E i \in 1..Len(rows) : Len(rows[i].val) = 0
       THEN Raise("IndexError")
       ELSE LET kept == SelectSeq(rows, RowHasPage)
            IN Return([i \in 1..Len(kept) |-> PyStr(kept[i].val[1])])

(***************************************************************************)
(* Exceptions of the driver: [type, msg], and tenacity's RetryError, which *)
(* holds the last attempt.                                                 *)
(***************************************************************************)
Exc(type, msg) == [type |-> type, msg |-> msg]

PostHogAPIError(msg) == Exc("PostHogAPIError", msg)

\* the aiohttp.ClientError raised by the n-th attempt of a call
ClientError(n) == Exc("ClientError", <<"network error on attempt", DigitChars[n + 1]>>)

RetryError(last) == [type |-> "RetryError", last |-> last]

\* str(e): a RetryError prints as RetryError[<Future ... raised ClientError>]
StrOf(e) ==
    IF e.type = "RetryError" THEN <<"RetryError[<Future raised", e.last.type, ">]">>
    ELSE e.msg

(***************************************************************************)
(* posthog_client.py: PostHogClient._query and its retry decorator         *)
(***************************************************************************)
StopAfterAttempt == 3

\* One execution of the body of _query, the n-th of the call, on what the
\* HTTP exchange did.
QueryAttemptResult(http, n) ==
    CASE http.kind = "ClientError" -> Raise(ClientError(n))
      [] http.kind = "429" -> Raise(PostHogAPIError(<<"Rate limited">>))
      [] http.kind = "error_status" -> Raise(PostHogAPIError(<<"API error">>))
      [] OTHER -> Return(http.body)

\* faulty variant: a decorator that retries whatever the attempt raised
RetryOnAnyException(result) == result.kind = "raise"

\* retry=retry_if_exception_type(aiohttp.ClientError)
RetryPredicate(result) == result.kind = "raise" /\ result.exc.type = "ClientError"

\* stop=stop_after_attempt(3)
StopPredicate(n) == n >= StopAfterAttempt

\* What the decorator does with the n-th attempt's result: [kind |-> "retry"],
\* or the end of the call.  reraise is not set, so exhausted retries raise
\* RetryError from the last attempt.
RetryDecision(result, n) ==
    IF ~RetryPredicate(result) THEN result
    ELSE IF StopPredicate(n) THEN Raise(RetryError(result.exc))
    ELSE [kind |-> "retry"]

(***************************************************************************)
(* config.py and PostHogClient.discover_projects                           *)
(***************************************************************************)
MaxProjects == 2

DefaultColor == 3447003

PROJECT_COLORS ==
    <<3447003, 10181046, 15844367, 3066993, 15105570, 3426654, 16776960, 9807270>>

EventName == <<"e">>

PostHogProject(id, color, events) ==
    [project_id |-> id, color |-> color, custom_events |-> events]

\* POSTHOG_PROJECTS: each project with or without a customEvents list
ConfiguredEventLists == {<<>>, <<EventName>>}

ConfiguredProjectLists ==
    UNION {{[i \in 1..k |-> PostHogProject(i, DefaultColor, f[i])] :
                f \in [1..k -> ConfiguredEventLists]} : k \in 0..MaxProjects}

\* GET /api/projects/: per listed project, whether it carries an id
ApiProjectListings == SeqsUpTo(BOOLEAN, MaxProjects)

\* the loop of discover_projects: entries without an id are skipped, the colour
\* goes round-robin by list position
DiscoverProjects(listing) ==
    LET withId == SelectSeq([i \in 1..Len(listing) |-> i], LAMBDA i : listing[i])
    IN [j \in 1..Len(withId) |->
            PostHogProject(withId[j],
                           PROJECT_COLORS[((withId[j] - 1) % Len(PROJECT_COLORS)) + 1],
                           <<>>)]

(***************************************************************************)
(* posthog_client.py: fetch_project_metrics and the helpers it calls       *)
(***************************************************************************)
FixedQueries ==
    <<"dau", "wau", "mau", "pageviews", "prev_dau", "prev_wau", "prev_mau", "prev_pageviews">>

DiscoverStep == Len(FixedQueries) + 1

StepName(s) ==
    IF s <= Len(FixedQueries) THEN FixedQueries[s]
    ELSE IF s = DiscoverStep THEN "discover"
    ELSE IF (s - DiscoverStep) % 2 = 1 THEN "event" ELSE "prev_event"

StepKind(s) ==
    IF StepName(s) \in {"pageviews", "prev_pageviews"} THEN "pageviews"
    ELSE IF StepName(s) = "discover" THEN "discover"
    ELSE "trend"

\* an exception raised while a response is processed
Lift(r) == IF r.kind = "raise" THEN Raise(Exc(r.exc, <<r.exc>>)) ELSE r

\* _fetch_active_users / _fetch_event_count, given how their _query call ended
FetchTrend(call) ==
    IF call.kind = "raise" THEN call ELSE Lift(ExtractTrendValue(call.val))

\* _fetch_pageviews
FetchPageviews(call) ==
    IF call.kind = "raise" THEN call ELSE Lift(FetchPageviewsResult(call.val))

\* faulty variant: discovery without its try/except
DiscoverCustomEventsNoCatch(call) ==
    IF call.kind = "raise" THEN call ELSE Lift(DiscoverEventsResult(call.val))

\* _discover_custom_events: try ... except Exception: return []
DiscoverCustomEvents(call) ==
    IF call.kind = "raise" THEN Return(<<>>)
    ELSE LET r == DiscoverEventsResult(call.val)
         IN IF r.kind = "raise" THEN Return(<<>>) ELSE r

HelperResult(kind, call) ==
    CASE kind = "pageviews" -> FetchPageviews(call)
      [] kind = "discover" -> DiscoverCustomEvents(call)
      [] OTHER -> FetchTrend(call)

NoFetch ==
    [active |-> FALSE, step |-> 0, vals |-> <<>>, names |-> <<>>,
     custom |-> <<>>, prev_custom |-> <<>>]

StartFetch == [NoFetch EXCEPT !.active = TRUE, !.step = 1]

\* the frame after the helper of step f.step returned v
AfterStep(f, project, v) ==
    IF f.step < Len(FixedQueries) THEN [f EXCEPT !.step = @ + 1, !.vals = Append(@, v)]
    ELSE IF f.step = Len(FixedQueries)
    THEN [f EXCEPT !.vals = Append(@, v),
                   !.names = project.custom_events,
                   !.step = IF project.custom_events # <<>> THEN DiscoverStep + 1
                            ELSE DiscoverStep]
    ELSE IF f.step = DiscoverStep THEN [f EXCEPT !.names = v, !.step = @ + 1]
    ELSE LET name == f.names[(f.step - DiscoverStep + 1) \div 2]
         IN IF StepName(f.step) = "event"
            THEN [f EXCEPT !.custom = Append(@, <<name, v>>), !.step = @ + 1]
            ELSE [f EXCEPT !.prev_custom = Append(@, <<name, v>>), !.step = @ + 1]

\* the event loop is over
EventsDone(f) == f.step > DiscoverStep /\ f.step - DiscoverStep > 2 * Len(f.names)

ProjectMetrics(f) ==
    [dau |-> f.vals[1], wau |-> f.vals[2], mau |-> f.vals[3],
     pageviews_24h |-> f.vals[4].pageviews, top_pages |-> f.vals[4].top_pages,
     custom_events |-> f.custom,
     prev_dau |-> f.vals[5], prev_wau |-> f.vals[6], prev_mau |-> f.vals[7],
     prev_pageviews_24h |-> f.vals[8].pageviews,
     prev_custom_events |-> f.prev_custom]

\* fetch_project_metrics after one helper call: an exception of the helper
\* leaves the function, a value moves it on, and after the last query it
\* returns the snapshot.
FetchProjectMetricsStep(f, project, helper) ==
    IF helper.kind = "raise" THEN [frame |-> NoFetch, outcome |-> helper]
    ELSE LET next == AfterStep(f, project, helper.val)
         IN IF EventsDone(next)
            THEN [frame |-> NoFetch, outcome |-> Return(ProjectMetrics(next))]
            ELSE [frame |-> next, outcome |-> [kind |-> "running"]]

(***************************************************************************)
(* What the analytics API may answer to one HTTP attempt                   *)
(***************************************************************************)
Row(page, views) == JList(<<page, JInt(views)>>)

Body(rows) == JDict(<< <<"results", JList(rows)>> >>)

GoodTrendBody == Body(<<JDict(<< <<"data", JList(<<JInt(0), JInt(1)>>)>> >>)>>)

NullSeriesBody == Body(<<JNull>>)

GoodPageBody == Body(<<Row(JStr(<<"/">>), 2), Row(JNull, 1)>>)

ShortRowBody == Body(<<JList(<<JStr(<<"/">>)>>)>>)

GoodEventsBody == Body(<<Row(JStr(EventName), 5)>>)

NoEventsBody == Body(<<>>)

EmptyRowBody == Body(<<JList(<<>>)>>)

ResponseBodies(kind) ==
    CASE kind = "pageviews" -> {GoodPageBody, ShortRowBody}
      [] kind = "discover" -> {GoodEventsBody, NoEventsBody, EmptyRowBody}
      [] OTHER -> {GoodTrendBody, NullSeriesBody}

HttpOutcomes(kind) ==
    {[kind |-> "ClientError"], [kind |-> "429"], [kind |-> "error_status"]}
        \cup {[kind |-> "200", body |-> b] : b \in ResponseBodies(kind)}

(***************************************************************************)
(* main.py: the digest driver                                              *)
(***************************************************************************)
Running == [kind |-> "running"]

Pending == [kind |-> "pending"]

NoCall == [kind |-> "none"]

ChunkLimit == 3

\* the texts format_digest may hand to send_dm (never empty: the header)
DigestMessages == {<<"a">>, <<"a", "b", "\n", "c", "d">>}

NoDiscord ==
    [step |-> "idle", login_called |-> FALSE, close_called |-> FALSE,
     message |-> <<>>, chunks |-> <<>>, sent |-> <<>>, outcome |-> "pending", calls |-> 0]

\* the except clauses of the collection loop
ResultsAfter(outcome) ==
    IF outcome.kind = "return"
    THEN Append(results, [project |-> projects[idx], metrics |-> outcome.val])
    ELSE results

\* faulty variant: handlers that log a failed project without recording it
ErrorsAfterNotRecorded(outcome) == errors

ErrorsAfter(outcome) ==
    IF outcome.kind = "raise"
    THEN Append(errors, [project |-> projects[idx], error |-> StrOf(outcome.exc)])
    ELSE errors

\* faulty variant: a loop that stops at the first project that fails
NextProjectStopOnError(outcome) ==
    IF outcome.kind = "raise" THEN Len(projects) + 1 ELSE idx + 1

\* for project in projects: the loop moves on whatever the outcome
NextProject(outcome) == idx + 1

\* faulty variant: a driver that reports per-project errors in its exit code
ExitAfterSendFailingOnErrors(outcome) ==
    IF outcome = "raised" \/ errors # <<>> THEN Return(1) ELSE Return(0)

\* the try around send_dm and the final return
ExitAfterSend(outcome) == IF outcome = "raised" THEN Return(1) ELSE Return(0)

LoadConfig ==
    /\ pc = "config"
    /\ \E status \in {"loaded", "KeyError", "ValueError"}, ps \in ConfiguredProjectLists :
          /\ status # "loaded" => ps = <<>>
          /\ config' = [status |-> status, projects |-> ps]
          /\ pc' = IF status = "loaded" THEN "resolve" ELSE "exited"
          /\ exit' = CASE status = "loaded" -> exit
                       [] status = "KeyError" -> Return(1)
                       [] OTHER -> Raise(Exc("ValueError", <<"ValueError">>))
    /\ UNCHANGED <<discovery, projects, idx, results, errors, fetch, callLog,
                   callResult, queryLog, fetchLog, discord, input, output>>

ResolveProjects ==
    /\ pc = "resolve"
    /\ IF config.projects # <<>>
       THEN /\ projects' = config.projects
            /\ pc' = "collect"
            /\ UNCHANGED <<discovery, exit>>
       ELSE \E status \in {"ok", "PostHogAPIError", "ClientError"},
               listing \in ApiProjectListings :
               /\ status # "ok" => listing = <<>>
               /\ discovery' = [status |-> status, listing |-> listing]
               /\ projects' = IF status = "ok" THEN DiscoverProjects(listing) ELSE <<>>
               /\ pc' = IF projects' # <<>> THEN "collect" ELSE "exited"
               /\ exit' = CASE status = "ClientError" -> Raise(ClientError(1))
                            [] projects' = <<>> -> Return(1)
                            [] OTHER -> exit
    /\ UNCHANGED <<config, idx, results, errors, fetch, callLog, callResult,
                   queryLog, fetchLog, discord, input, output>>

BeginFetch ==
    /\ pc = "collect"
    /\ ~fetch.active
    /\ idx <= Len(projects)
    /\ fetch' = StartFetch
    /\ queryLog' = <<>>
    /\ callLog' = <<>>
    /\ callResult' = NoCall
    /\ UNCHANGED <<pc, exit, config, discovery, projects, idx, results, errors,
                   fetchLog, discord, input, output>>

QueryAttempt ==
    /\ pc = "collect"
    /\ fetch.active
    /\ \E http \in HttpOutcomes(StepKind(fetch.step)) :
          LET log == IF callResult.kind = "pending" THEN callLog ELSE <<>>
              n == Len(log) + 1
              decision == RetryDecision(QueryAttemptResult(http, n), n)
          IN /\ callLog' = Append(log, http.kind)
             /\ IF decision.kind = "retry"
                THEN /\ callResult' = Pending
                     /\ UNCHANGED <<fetch, queryLog, results, errors, idx, fetchLog>>
                ELSE LET helper == HelperResult(StepKind(fetch.step), decision)
                         after == FetchProjectMetricsStep(fetch, projects[idx], helper)
                     IN /\ callResult' = decision
                        /\ queryLog' = Append(queryLog, [step |-> StepName(fetch.step),
                                                         call |-> decision])
                        /\ fetch' = after.frame
                        /\ IF after.outcome.kind = "running"
                           THEN UNCHANGED <<results, errors, idx, fetchLog>>
                           ELSE /\ results' = ResultsAfter(after.outcome)
                                /\ errors' = ErrorsAfter(after.outcome)
                                /\ idx' = NextProject(after.outcome)
                                /\ fetchLog' = Append(fetchLog,
                                       [project |-> idx, kind |-> after.outcome.kind])
    /\ UNCHANGED <<pc, exit, config, discovery, projects, discord, input, output>>

CheckAndFormat ==
    /\ pc = "collect"
    /\ ~fetch.active
    /\ idx > Len(projects)
    /\ IF results = <<>> /\ errors = <<>>
       THEN /\ pc' = "exited"
            /\ exit' = Return(0)
            /\ UNCHANGED discord
       ELSE \E m \in DigestMessages :
               /\ pc' = "send"
               /\ discord' = [NoDiscord EXCEPT !.step = "login", !.message = m,
                                               !.calls = discord.calls + 1]
               /\ UNCHANGED exit
    /\ queryLog' = <<>>
    /\ callLog' = <<>>
    /\ callResult' = NoCall
    /\ UNCHANGED <<config, discovery, projects, idx, results, errors, fetch,
                   fetchLog, input, output>>

(***************************************************************************)
(* discord_client.py: DiscordClient.send_dm                                *)
(***************************************************************************)
\* send_dm is left (returned or raised) and main returns
LeaveSendDm(frame, outcome) ==
    /\ discord' = [frame EXCEPT !.step = "done", !.outcome = outcome]
    /\ pc' = "exited"
    /\ exit' = ExitAfterSend(outcome)

\* the finally clause
Finally(frame) == [frame EXCEPT !.close_called = TRUE]

\* await self.client.login(...), before the try
Login ==
    /\ pc = "send"
    /\ discord.step = "login"
    /\ \E ok \in BOOLEAN :
          LET frame == [discord EXCEPT !.login_called = TRUE]
          IN IF ok
             THEN /\ discord' = [frame EXCEPT !.step = "fetch_user"]
                  /\ UNCHANGED <<pc, exit>>
             ELSE LeaveSendDm(frame, "raised")
    /\ UNCHANGED <<config, discovery, projects, idx, results, errors, fetch,
                   callLog, callResult, queryLog, fetchLog, input, output>>

FetchUser ==
    /\ pc = "send"
    /\ discord.step = "fetch_user"
    /\ \E ok \in BOOLEAN :
          IF ok
          THEN /\ discord' = [discord EXCEPT !.step = "create_dm"]
               /\ UNCHANGED <<pc, exit>>
          ELSE LeaveSendDm(Finally(discord), "raised")
    /\ UNCHANGED <<config, discovery, projects, idx, results, errors, fetch,
                   callLog, callResult, queryLog, fetchLog, input, output>>

\* user.create_dm(), then chunks = self._split_message(message, 1900)
CreateDm ==
    /\ pc = "send"
    /\ discord.step = "create_dm"
    /\ \E ok \in BOOLEAN :
          IF ok
          THEN LET chunks == SplitMessage(discord.message, ChunkLimit)
               IN IF chunks = <<>>
                  THEN LeaveSendDm(Finally(discord), "returned")
                  ELSE /\ discord' = [discord EXCEPT !.step = "send", !.chunks = chunks]
                       /\ UNCHANGED <<pc, exit>>
          ELSE LeaveSendDm(Finally(discord), "raised")
    /\ UNCHANGED <<config, discovery, projects, idx, results, errors, fetch,
                   callLog, callResult, queryLog, fetchLog, input, output>>

\* one iteration of: for chunk in chunks: await dm_channel.send(chunk)
SendChunk ==
    /\ pc = "send"
    /\ discord.step = "send"
    /\ \E ok \in BOOLEAN :
          IF ok
          THEN LET frame == [discord EXCEPT !.sent = Append(@, Head(discord.chunks)),
                                            !.chunks = Tail(@)]
               IN IF frame.chunks = <<>>
                  THEN LeaveSendDm(Finally(frame), "returned")
                  ELSE /\ discord' = frame
                       /\ UNCHANGED <<pc, exit>>
          ELSE LeaveSendDm(Finally(discord), "raised")
    /\ UNCHANGED <<config, discovery, projects, idx, results, errors, fetch,
                   callLog, callResult, queryLog, fetchLog, input, output>>

Init ==
    /\ pc = "config"
    /\ exit = Running
    /\ config = [status |-> "unset", projects |-> <<>>]
    /\ discovery = [status |-> "not_run", listing |-> <<>>]
    /\ projects = <<>>
    /\ idx = 1
    /\ results = <<>>
    /\ errors = <<>>
    /\ fetch = NoFetch
    /\ callLog = <<>>
    /\ callResult = NoCall
    /\ queryLog = <<>>
    /\ fetchLog = <<>>
    /\ discord = NoDiscord
    /\ input = None
    /\ output = None

Next ==
    \/ LoadConfig
    \/ ResolveProjects
    \/ BeginFetch
    \/ QueryAttempt
    \/ CheckAndFormat
    \/ Login
    \/ FetchUser
    \/ CreateDm
    \/ SendChunk

Spec == Init /\ [][Next]_vars

(***************************************************************************)
(* The helpers exercised alone: one call on an input drawn from a bounded  *)
(* set, the driver idle.                                                   *)
(***************************************************************************)
DriverIdle ==
    /\ pc = "unit"
    /\ exit = Running
    /\ config = [status |-> "unset", projects |-> <<>>]
    /\ discovery = [status |-> "not_run", listing |-> <<>>]
    /\ projects = <<>>
    /\ idx = 1
    /\ results = <<>>
    /\ errors = <<>>
    /\ fetch = NoFetch
    /\ callLog = <<>>
    /\ callResult = NoCall
    /\ queryLog = <<>>
    /\ fetchLog = <<>>
    /\ discord = NoDiscord

\* _extract_trend_value(result)
TrendInit ==
    /\ DriverIdle
    /\ input \in {[fn |-> "_extract_trend_value", result |-> b] : b \in TrendBodies}
    /\ output = None

CallExtractTrendValue ==
    /\ pc = "unit"
    /\ input.fn = "_extract_trend_value"
    /\ output = None
    /\ output' = ExtractTrendValue(input.result)
    /\ UNCHANGED <<driverVars, input>>

TrendNext == CallExtractTrendValue

TrendSpec == TrendInit /\ [][TrendNext]_vars

\* format_change(current, previous)
MaxCurrent == 1200

PreviousValues ==
    {None} \cup {JInt(n) : n \in {0, 1, 2, 3, 8, 50, 100, 101, 150, 199, 200, 201,
                                  1000, 1001, 1100, 1200}}

FormatInit ==
    /\ DriverIdle
    /\ input \in {[fn |-> "format_change", current |-> c, previous |-> p] :
                     c \in 0..MaxCurrent, p \in PreviousValues}
    /\ output = None

CallFormatChange ==
    /\ pc = "unit"
    /\ input.fn = "format_change"
    /\ output = None
    /\ output' = Return(FormatChange(input.current, input.previous))
    /\ UNCHANGED <<driverVars, input>>

FormatNext == CallFormatChange

FormatSpec == FormatInit /\ [][FormatNext]_vars

\* _split_message(message, max_length)
MaxMessageLen == 6

MessageChars == {"a", "b", " ", "\n"}

SplitInit ==
    /\ DriverIdle
    /\ input \in {[fn |-> "_split_message", message |-> m, max_length |-> ChunkLimit] :
                     m \in SeqsUpTo(MessageChars, MaxMessageLen)}
    /\ output = None

CallSplitMessage ==
    /\ pc = "unit"
    /\ input.fn = "_split_message"
    /\ output = None
    /\ output' = Return(SplitMessage(input.message, input.max_length))
    /\ UNCHANGED <<driverVars, input>>

SplitNext == CallSplitMessage

SplitSpec == SplitInit /\ [][SplitNext]_vars

\* _fetch_pageviews on a response to its query, whose rows the API returns
\* ORDER BY views DESC
MaxRows == 6

PageValues == {JNull, JStr(<<>>), JStr(<<"/">>)}

ViewValues == {1, 2}

PageRows == {Row(p, v) : p \in PageValues, v \in ViewValues}

OrderedByViewsDesc(rows) ==
    \A i \in 1..(Len(rows) - 1) : rows[i].val[2].val >= rows[i + 1].val[2].val

PageviewBodies ==
    {JDict(<<>>)}
        \cup {Body(rows) : rows \in {r \in SeqsUpTo(PageRows, MaxRows) : OrderedByViewsDesc(r)}}

PagesInit ==
    /\ DriverIdle
    /\ input \in {[fn |-> "_fetch_pageviews", result |-> b] : b \in PageviewBodies}
    /\ output = None

CallFetchPageviews ==
    /\ pc = "unit"
    /\ input.fn = "_fetch_pageviews"
    /\ output = None
    /\ output' = FetchPageviewsResult(input.result)
    /\ UNCHANGED <<driverVars, input>>

PagesNext == CallFetchPageviews

PagesSpec == PagesInit /\ [][PagesNext]_vars

(***************************************************************************)
(* Properties                                                              *)
(***************************************************************************)
Last(s) == s[Len(s)]

ReturnedFetches == SelectSeq(fetchLog, LAMBDA e : e.kind = "return")

RaisedFetches == SelectSeq(fetchLog, LAMBDA e : e.kind = "raise")

\* C1: the collection loop attempts the projects in list order; a project whose
\* fetch_project_metrics raised is in errors and not in results, one whose fetch
\* returned is in results and not in errors, and once the loop is over every
\* project has been attempted, however many of the earlier ones failed.
C1_CollectionLoop ==
    /\ \A i \in 1..Len(fetchLog) : fetchLog[i].project = i
    /\ Len(fetchLog) <= Len(projects)
    /\ Len(results) = Len(ReturnedFetches)
    /\ \A k \in 1..Len(results) :
          results[k].project = projects[ReturnedFetches[k].project]
    /\ Len(errors) = Len(RaisedFetches)
    /\ \A k \in 1..Len(errors) :
          errors[k].project = projects[RaisedFetches[k].project]
    /\ (pc = "send" \/ discord.outcome # "pending") => Len(fetchLog) = Len(projects)

\* a run in which the first project failed and the second one succeeded
C1_Witness ==
    /\ pc = "send"
    /\ Len(fetchLog) = 2
    /\ fetchLog[1].kind = "raise"
    /\ fetchLog[2].kind = "return"
    /\ Len(results) = 1
    /\ Len(errors) = 1

\* C2: one _query call makes at most 3 HTTP attempts, every attempt but the last
\* ended in an aiohttp.ClientError, a 429 or a status >= 400 ends the call with a
\* PostHogAPIError on that attempt, and a successful response ends it with the
\* body returned.
C2_QueryRetryPolicy ==
    /\ Len(callLog) <= 3
    /\ \A i \in 1..(Len(callLog) - 1) : callLog[i] = "ClientError"
    /\ (callLog # <<>> /\ Last(callLog) \in {"429", "error_status"})
          => (callResult.kind = "raise" /\ callResult.exc.type = "PostHogAPIError")
    /\ (callLog # <<>> /\ Last(callLog) = "200") => callResult.kind = "return"
    /\ (callLog # <<>> /\ Last(callLog) = "ClientError" /\ Len(callLog) < 3)
          => callResult.kind = "pending"

\* a call that was rate limited on its third attempt, after two network errors
C2_Witness ==
    /\ callLog = <<"ClientError", "ClientError", "429">>
    /\ callResult.kind = "raise"

ExhaustedCall ==
    /\ Len(callLog) = 3
    /\ \A i \in 1..3 : callLog[i] = "ClientError"
    /\ callResult.kind # "pending"

\* C3: when all 3 attempts of a _query call failed with a network error, the
\* error raised to the caller is the third attempt's aiohttp.ClientError itself,
\* and that is the error main records for a project it aborts.
C3_LastNetworkErrorSurfaces ==
    ExhaustedCall =>
        /\ callResult = Raise(ClientError(3))
        /\ (~fetch.active /\ Last(fetchLog).kind = "raise")
              => Last(errors).error = StrOf(ClientError(3))

\* C4: with the configuration loaded, a non-empty project list and the digest
\* delivered, main returns 0 whatever the number of failed projects; it returns 1
\* only for a configuration error, a failed or empty discovery, or a failed
\* delivery.
C4_ExitCode ==
    /\ (pc = "exited" /\ config.status = "loaded" /\ projects # <<>>
            /\ discord.outcome = "returned") => exit = Return(0)
    /\ exit = Return(1)
          => \/ config.status = "KeyError"
             \/ discovery.status = "PostHogAPIError"
             \/ (discovery.status = "ok" /\ projects = <<>>)
             \/ discord.outcome = "raised"

\* a delivered digest of a run in which every project failed
C4_Witness ==
    /\ pc = "exited"
    /\ exit = Return(0)
    /\ discord.outcome = "returned"
    /\ results = <<>>
    /\ Len(errors) = 2

\* C5: whenever send_dm is left after client.login was called, client.close()
\* has been called.
C5_SessionTornDown ==
    (discord.login_called /\ discord.outcome # "pending") => discord.close_called

\* the lines of a text, each without its trailing whitespace, blank ones dropped
StrippedLines(s) ==
    SelectSeq([i \in 1..Len(SplitLines(s)) |-> RStrip(SplitLines(s)[i])],
              LAMBDA l : l # <<>>)

RECURSIVE ChunkLines(_)
ChunkLines(chunks) ==
    IF chunks = <<>> THEN <<>>
    ELSE StrippedLines(Head(chunks)) \o ChunkLines(Tail(chunks))

\* _split_message keeps the lines whole and in order
LinesKeptInOrder ==
    (output # None /\ input.fn = "_split_message")
        => ChunkLines(output.val) = StrippedLines(input.message)

\* C6: every chunk of _split_message(message, limit) is at most limit characters
\* long, and the chunks hold the lines of the message, whole and in their
\* original order.
C6_ChunksWithinLimit ==
    (output # None /\ input.fn = "_split_message")
        => /\ \A i \in 1..Len(output.val) : Len(output.val[i]) <= input.max_length
           /\ ChunkLines(output.val) = StrippedLines(input.message)

\* C7: for current >= 0 and previous > 0 with |pct| < 1, format_change renders
\* the thousands-separated current value, the no-change marker and a rounded
\* percentage, with no '+' and no '-' anywhere.
C7_NoChangeHasNoSign ==
    (output # None /\ input.fn = "format_change" /\ input.previous.kind = "int"
        /\ input.previous.val > 0
        /\ Abs((input.current - input.previous.val) * 100) < input.previous.val)
        => LET text == output.val
               head == FormatNumber(input.current) \o <<" ", NoChangeArrow, " ">>
           IN /\ Len(text) > Len(head) + 1
              /\ SubSeq(text, 1, Len(head)) = head
              /\ Last(text) = "%"
              /\ \A i \in 1..Len(text) : text[i] \notin {"+", "-"}

\* C8: the top_pages list _fetch_pageviews produces has at most 5 entries and
\* is non-increasing in view count.
C8_TopPagesBounded ==
    (output # None /\ input.fn = "_fetch_pageviews")
        => /\ output.kind = "return"
           /\ Len(output.val.top_pages) <= 5
           /\ \A i \in 1..(Len(output.val.top_pages) - 1) :
                 output.val.top_pages[i].views >= output.val.top_pages[i + 1].views

\* more than five rows, some of the first five without a page, and the views
\* of the pages kept not all equal
C8_Witness ==
    /\ output # None
    /\ input.fn = "_fetch_pageviews"
    /\ Len(Lookup(input.result.val, "results", JList(<<>>)).val) > 5
    /\ Len(output.val.top_pages) = 4
    /\ output.val.top_pages[1].views > output.val.top_pages[4].views

MalformedDiscoveryBodies == {EmptyRowBody}

DiscoveryFailed(call) ==
    call.kind = "raise" \/ call.val \in MalformedDiscoveryBodies

\* the project the query log is about
LoggedProject == projects[IF fetch.active THEN idx ELSE idx - 1]

\* C9: for a project with no configured event list, discovery is the ninth
\* query, made after the eight active-user and pageview queries returned; a
\* failed discovery (rejected, rate limited, retries exhausted, malformed rows)
\* ends the project's fetch with a snapshot whose custom_events is empty,
\* recorded in results; a failure of any other query aborts the project, which
\* is recorded in errors.
C9_DiscoveryBestEffort ==
    (pc = "collect" /\ queryLog # <<>> /\ LoggedProject.custom_events = <<>>)
        => /\ \A k \in 1..Len(queryLog) :
                 IF k <= Len(FixedQueries) THEN queryLog[k].step = FixedQueries[k]
                 ELSE IF k = Len(FixedQueries) + 1 THEN queryLog[k].step = "discover"
                 ELSE queryLog[k].step \in {"event", "prev_event"}
           /\ \A k \in 1..Len(queryLog) :
                 queryLog[k].step = "discover"
                    => \A j \in 1..(k - 1) : queryLog[j].call.kind = "return"
           /\ \A k \in 1..Len(queryLog) :
                 (queryLog[k].step = "discover" /\ DiscoveryFailed(queryLog[k].call))
                    => /\ k = Len(queryLog)
                       /\ ~fetch.active
                       /\ Last(fetchLog) = [project |-> idx - 1, kind |-> "return"]
                       /\ Last(results).project = LoggedProject
                       /\ Last(results).metrics.custom_events = <<>>
           /\ \A k \in 1..Len(queryLog) :
                 (queryLog[k].step # "discover" /\ queryLog[k].call.kind = "raise")
                    => /\ k = Len(queryLog)
                       /\ ~fetch.active
                       /\ Last(fetchLog) = [project |-> idx - 1, kind |-> "raise"]
                       /\ Last(errors).project = LoggedProject

\* a project without configured events whose discovery query ran out of
\* retries, after a project that was aborted
C9_Witness ==
    /\ pc = "collect"
    /\ Len(queryLog) = 9
    /\ queryLog[9].step = "discover"
    /\ queryLog[9].call.kind = "raise"
    /\ queryLog[9].call.exc.type = "RetryError"
    /\ Len(errors) = 1
    /\ Len(results) = 1
    /\ Last(results).metrics.custom_events = <<>>

\* the first series of the body and its last data point, when they are there
HasLastPoint(body) ==
    LET series == Lookup(body.val, "results", JNull)
    IN /\ series.kind = "list"
       /\ series.val # <<>>
       /\ series.val[1].kind = "dict"
       /\ Lookup(series.val[1].val, "data", JNull).kind = "list"
       /\ Lookup(series.val[1].val, "data", JNull).val # <<>>
       /\ PyInt(Last(Lookup(series.val[1].val, "data", JNull).val)).kind = "return"

LastPoint(body) ==
    PyInt(Last(Lookup(Lookup(body.val, "results", JNull).val[1].val, "data", JNull).val)).val

\* C10: _extract_trend_value never raises: it returns the last data point of
\* the first result series when there is one, and 0 for every other body.
C10_ExtractTrendNeverRaises ==
    (output # None /\ input.fn = "_extract_trend_value")
        => /\ output.kind = "return"
           /\ output.val = IF HasLastPoint(input.result) THEN LastPoint(input.result)
                           ELSE 0

\* control is at the check that follows the collection loop
AtCheck == pc = "collect" /\ ~fetch.active /\ idx > Len(projects)

\* C11: at the check after the collection loop the project list is non-empty
\* and results and errors together hold one entry per project, so main never
\* returns through "No data to send": whenever main has returned 0, send_dm was
\* called exactly once, after every project was attempted, and it returned.
C11_ReturnZeroMeansDelivered ==
    /\ AtCheck => (projects # <<>> /\ Len(results) + Len(errors) = Len(projects))
    /\ discord.calls <= 1
    /\ discord.calls = 1 => Len(fetchLog) = Len(projects)
    /\ exit = Return(0)
          => /\ discord.calls = 1
             /\ discord.outcome = "returned"
             /\ discord.sent # <<>>

\* main returned 0 after a run with one failed and one collected project
C11_Witness ==
    /\ pc = "exited"
    /\ exit = Return(0)
    /\ discord.calls = 1
    /\ Len(results) = 1
    /\ Len(errors) = 1

====
